---- MODULE Spec2Model ----
(***************************************************************************)
(* blockyWorld/main.js: a first-person camera (eye, forward, up, at) moved  *)
(* by keydown and mousemove handlers, and drawScene, which issues one draw  *)
(* per cube (sky, ground, one per unit of the height grid).                 *)
(*                                                                          *)
(* Numbers are fixed point: the integer n stands for n / One, One = 10^7,   *)
(* about the resolution of the Float32Array the vectors are stored in.      *)
(* Products are computed by limbs so that no intermediate value leaves the  *)
(* 32-bit range.                                                            *)
(***************************************************************************)
EXTENDS Integers, Sequences, FiniteSets

\* ------------------------------------------------------------ bounds
\* number of input events (keydown, mousemove, click, ...) in one run
MaxSteps == 4
\* the height grids of SpecScene: at most MaxCells cells, heights 0..MaxHeight
MaxCells == 4
MaxHeight == 2

\* ------------------------------------------------------ fixed point
One == 10000000
Limb == 10000
\* 1e-6, the tolerance of the numerical claims
Tol == One \div 1000000

Abs(a) == IF a < 0 THEN -a ELSE a
Sgn(a) == IF a < 0 THEN -1 ELSE 1
\* a / n for an integer n > 0, rounded toward zero
TDiv(a, n) == Sgn(a) * (Abs(a) \div n)

\* floor(a*b/One) for a, b >= 0, by limbs of 10^4
FMulAbs(a, b) ==
  LET a1 == a \div Limb
      a0 == a % Limb
      b1 == b \div Limb
      b0 == b % Limb
      x  == a1 * b0 + a0 * b1
  IN  a1 * b1 * 10 + (x \div 1000) + (((x % 1000) * Limb + a0 * b0) \div One)

\* a*b in fixed point, rounded toward zero
FMul(a, b) == Sgn(a) * Sgn(b) * FMulAbs(Abs(a), Abs(b))

\* long division: acc * 10^n + floor(r * 10^n / b), for 0 <= r < b
RECURSIVE FracDigits(_, _, _, _)
FracDigits(r, b, n, acc) ==
  IF n = 0 THEN acc
  ELSE FracDigits((r * 10) % b, b, n - 1, acc * 10 + ((r * 10) \div b))

\* a/b in fixed point (a*One/b), rounded toward zero, b # 0
FDiv(a, b) ==
  LET aa == Abs(a)
      bb == Abs(b)
  IN  Sgn(a) * Sgn(b) * FracDigits(aa % bb, bb, 7, aa \div bb)

\* integer Newton iteration for sqrt(m2) in fixed point, from a guess g above it
RECURSIVE SqrtIter(_, _)
SqrtIter(m2, g) ==
  LET n == (g + FDiv(m2, g)) \div 2
  IN  IF n >= g THEN g ELSE SqrtIter(m2, n)

\* Math.sqrt
Sqrt(m2) == IF m2 <= 0 THEN 0 ELSE SqrtIter(m2, (m2 + One) \div 2 + 1)

\* ------------------------------------------------------- Vector3
VAdd(a, b) == <<a[1] + b[1], a[2] + b[2], a[3] + b[3]>>
VSub(a, b) == <<a[1] - b[1], a[2] - b[2], a[3] - b[3]>>
\* Vector3.mul(scalar), the scalar in fixed point
VMul(a, k) == <<FMul(a[1], k), FMul(a[2], k), FMul(a[3], k)>>
Dot(a, b) == FMul(a[1], b[1]) + FMul(a[2], b[2]) + FMul(a[3], b[3])
Cross(a, b) ==
  <<FMul(a[2], b[3]) - FMul(a[3], b[2]),
    FMul(a[3], b[1]) - FMul(a[1], b[3]),
    FMul(a[1], b[2]) - FMul(a[2], b[1])>>
Magnitude(a) == Sqrt(Dot(a, a))
\* Vector3.normalize: the vector scaled by 1/|a|; the zero vector stays zero
Normalize(a) ==
  LET g == Magnitude(a)
  IN  IF g = 0 THEN <<0, 0, 0>>
      ELSE IF g = One THEN a
      ELSE VMul(a, FDiv(One, g))

\* ------------------------------------------------------- Math.sin, Math.cos
Pi == 31415927
\* x in radians, |x| <= 1: the Taylor series to x^9 / x^8
Sin(x) ==
  LET x2 == FMul(x, x)
      x3 == FMul(x2, x)
      x5 == FMul(x3, x2)
      x7 == FMul(x5, x2)
      x9 == FMul(x7, x2)
  IN  x - TDiv(x3, 6) + TDiv(x5, 120) - TDiv(x7, 5040) + TDiv(x9, 362880)
Cos(x) ==
  LET x2 == FMul(x, x)
      x4 == FMul(x2, x2)
      x6 == FMul(x4, x2)
      x8 == FMul(x4, x4)
  IN  One - (x2 \div 2) + (x4 \div 24) - (x6 \div 720) + (x8 \div 40320)
\* degrees to radians, as Matrix4.setRotate and setPerspective do (PI * angle / 180)
Radians(deg) == TDiv(FMul(Pi, deg), 180)
\* radians to degrees, as the mousemove handler does (yaw * 180 / Math.PI)
Degrees(rad) == FDiv(rad * 180, Pi)

\* ------------------------------------------------------- Matrix4
\* the 16 elements, column major: elements[k] of the code is m[k + 1]
Identity ==
  <<One, 0, 0, 0,  0, One, 0, 0,  0, 0, One, 0,  0, 0, 0, One>>

SetTranslate(x, y, z) ==
  <<One, 0, 0, 0,  0, One, 0, 0,  0, 0, One, 0,  x, y, z, One>>

\* Matrix4.scale: the first three columns multiplied by x, y, z
Scale(m, x, y, z) ==
  <<FMul(m[1], x), FMul(m[2], x), FMul(m[3], x), FMul(m[4], x),
    FMul(m[5], y), FMul(m[6], y), FMul(m[7], y), FMul(m[8], y),
    FMul(m[9], z), FMul(m[10], z), FMul(m[11], z), FMul(m[12], z),
    m[13], m[14], m[15], m[16]>>

\* Matrix4.translate: the last column plus the first three times x, y, z
Translate(m, x, y, z) ==
  <<m[1], m[2], m[3], m[4],  m[5], m[6], m[7], m[8],  m[9], m[10], m[11], m[12],
    m[13] + FMul(m[1], x) + FMul(m[5], y) + FMul(m[9], z),
    m[14] + FMul(m[2], x) + FMul(m[6], y) + FMul(m[10], z),
    m[15] + FMul(m[3], x) + FMul(m[7], y) + FMul(m[11], z),
    m[16] + FMul(m[4], x) + FMul(m[8], y) + FMul(m[12], z)>>

\* Matrix4.setRotate(angle in degrees, axis)
SetRotate(deg, axis) ==
  LET rad == Radians(deg)
      s   == Sin(rad)
      c   == Cos(rad)
      n   == Normalize(axis)
      x   == n[1]
      y   == n[2]
      z   == n[3]
      nc  == One - c
      xy  == FMul(FMul(x, y), nc)
      yz  == FMul(FMul(y, z), nc)
      zx  == FMul(FMul(z, x), nc)
      xs  == FMul(x, s)
      ys  == FMul(y, s)
      zs  == FMul(z, s)
  IN  <<FMul(FMul(x, x), nc) + c, xy + zs, zx - ys, 0,
        xy - zs, FMul(FMul(y, y), nc) + c, yz + xs, 0,
        zx + ys, yz - xs, FMul(FMul(z, z), nc) + c, 0,
        0, 0, 0, One>>

\* Matrix4.multiplyVector3
MultiplyVector3(m, v) ==
  <<FMul(v[1], m[1]) + FMul(v[2], m[5]) + FMul(v[3], m[9]),
    FMul(v[1], m[2]) + FMul(v[2], m[6]) + FMul(v[3], m[10]),
    FMul(v[1], m[3]) + FMul(v[2], m[7]) + FMul(v[3], m[11])>>

\* Matrix4.setLookAt(eye, center, up)
SetLookAt(e, c, u) ==
  LET f  == Normalize(VSub(c, e))
      sv == Normalize(Cross(f, u))
      uv == Cross(sv, f)
  IN  Translate(<<sv[1], uv[1], -f[1], 0,
                  sv[2], uv[2], -f[2], 0,
                  sv[3], uv[3], -f[3], 0,
                  0, 0, 0, One>>, -e[1], -e[2], -e[3])

\* Matrix4.setPerspective(fovy in degrees, aspect, near, far)
SetPerspective(fovy, aspect, near, far) ==
  LET half == TDiv(Radians(fovy), 2)
      ct   == FDiv(Cos(half), Sin(half))
      rd   == FDiv(One, far - near)
  IN  <<FDiv(ct, aspect), 0, 0, 0,
        0, ct, 0, 0,
        0, 0, -FMul(far + near, rd), -One,
        0, 0, -2 * FMul(FMul(near, far), rd), 0>>

\* ------------------------------------------------------- program state
VARIABLES
  pc,                \* "start" while the script is loading, "ready" once it has run
  eye, forward, up, at,
  viewMatrix, projectionMatrix,
  map,               \* the height grid
  texLoaded,         \* image.onload has run
  pointerLock,       \* document.pointerLockElement === canvas
  screen,            \* what the latest execution of drawScene issued
  draws,             \* executions of drawScene by the last handler
  drawLog,           \* the view matrix and camera each of them started with
  lastEvent,         \* the event the last handler ran for
  before,            \* eye, forward and at when the last handler started
  steps              \* events handled so far

vars == <<pc, eye, forward, up, at, viewMatrix, projectionMatrix, map,
          texLoaded, pointerLock, screen, draws, drawLog, lastEvent, before, steps>>

\* the map of the source
SourceMap ==
  <<<<1, 0, 2, 0>>,
    <<3, 0, 0, 1>>,
    <<1, 0, 1, 1>>,
    <<4, 0, 0, 2>>>>

\* inputs
MoveCodes == {"KeyW", "KeyS", "KeyA", "KeyD", "Space", "ShiftLeft"}
YawCodes == {"KeyQ", "KeyE"}
OtherCodes == {"KeyX"}
Codes == MoveCodes \cup YawCodes \cup OtherCodes
MovementX == {-40, 25}
CanvasSizes == {<<400, 400>>, <<600, 400>>}

\* ------------------------------------------------------- Cube, drawScene
\* Cube.draw: the uniforms of one drawArrays call
CubeDraw(modelMatrix, texWeight, baseColor) ==
  [modelMatrix |-> modelMatrix, texWeight |-> texWeight, baseColor |-> baseColor]

SkyColor == <<3000000, 5000000, One, One>>
GroundColor == <<3000000, 8000000, 3000000, One>>
DefaultColor == <<One, One, One, One>>

SkyCube ==
  CubeDraw(Scale(SetTranslate(2 * One, 2 * One, 2 * One), 50 * One, 50 * One, 50 * One),
           0, SkyColor)
GroundCube ==
  CubeDraw(Scale(SetTranslate(2 * One, -1000000, 2 * One), 8 * One, 1000000, 8 * One),
           0, GroundColor)

\* the stack loop with h <= height for h < height
RECURSIVE StackLoop_OffByOne(_, _, _, _)
StackLoop_OffByOne(i, j, h, height) ==
  IF h <= height
  THEN <<CubeDraw(SetTranslate(i * One, h * One, j * One), One, DefaultColor)>>
         \o StackLoop_OffByOne(i, j, h + 1, height)
  ELSE <<>>

\* the stack loop counting down: for (h = height - 1; h >= h0; h--)
RECURSIVE StackLoop_TopDown(_, _, _, _)
StackLoop_TopDown(i, j, h, height) ==
  IF h < height
  THEN StackLoop_TopDown(i, j, h + 1, height)
         \o <<CubeDraw(SetTranslate(i * One, h * One, j * One), One, DefaultColor)>>
  ELSE <<>>

\* for (h = h0; h < height; h++) draw the cube at (i, h, j)
RECURSIVE StackLoop(_, _, _, _)
StackLoop(i, j, h, height) ==
  IF h < height
  THEN <<CubeDraw(SetTranslate(i * One, h * One, j * One), One, DefaultColor)>>
         \o StackLoop(i, j, h + 1, height)
  ELSE <<>>

\* for (j = j0; j < map[0].length; j++)
RECURSIVE ColLoop(_, _, _)
ColLoop(m, i, j) ==
  IF j < Len(m[1])
  THEN StackLoop(i, j, 0, m[i + 1][j + 1]) \o ColLoop(m, i, j + 1)
  ELSE <<>>

\* for (i = i0; i < map.length; i++)
RECURSIVE RowLoop(_, _)
RowLoop(m, i) ==
  IF i < Len(m) THEN ColLoop(m, i, 0) \o RowLoop(m, i + 1) ELSE <<>>

\* the cubes of the map, in the order drawScene draws them
GridCubes(m) == RowLoop(m, 0)

\* the globals drawScene finds when it starts
Seen(s) == [view |-> s.viewMatrix, eye |-> s.eye, at |-> s.at, up |-> s.up]

\* drawScene placing the sky by viewMatrix.translate(2, 2, 2), in place
DrawScene_InPlace(s) ==
  [s EXCEPT !.screen = [view  |-> s.viewMatrix,
                        proj  |-> s.projectionMatrix,
                        calls |-> <<SkyCube, GroundCube>> \o GridCubes(s.map)],
            !.draws = @ + 1,
            !.drawLog = Append(@, Seen(s)),
            !.viewMatrix = Translate(@, 2 * One, 2 * One, 2 * One)]

\* drawScene: the view and projection uniforms, then sky, ground and the map
DrawScene(s) ==
  [s EXCEPT !.screen = [view  |-> s.viewMatrix,
                        proj  |-> s.projectionMatrix,
                        calls |-> <<SkyCube, GroundCube>> \o GridCubes(s.map)],
            !.draws = @ + 1,
            !.drawLog = Append(@, Seen(s))]

\* ------------------------------------------------------- camera
UpdateViewMatrix(s) ==
  [s EXCEPT !.viewMatrix = SetLookAt(s.eye, s.at, s.up)]

UpdateProjectionMatrix(s, size) ==
  [s EXCEPT !.projectionMatrix =
     SetPerspective(60 * One, FDiv(size[1], size[2]), 1000000, 100 * One)]

MoveStep == 3000000

\* move with at.add(moveVec) left out
Move_EyeOnly(s, dirVec) ==
  LET moveVec == VMul(Normalize(dirVec), MoveStep)
  IN  DrawScene(UpdateViewMatrix([s EXCEPT !.eye = VAdd(@, moveVec)]))

\* move without normalize: the step scaled by the length of dirVec
Move_NoNormalize(s, dirVec) ==
  LET moveVec == VMul(dirVec, MoveStep)
  IN  DrawScene(UpdateViewMatrix(
        [s EXCEPT !.eye = VAdd(@, moveVec), !.at = VAdd(@, moveVec)]))

\* move(dirVec)
Move(s, dirVec) ==
  LET moveVec == VMul(Normalize(dirVec), MoveStep)
  IN  DrawScene(UpdateViewMatrix(
        [s EXCEPT !.eye = VAdd(@, moveVec), !.at = VAdd(@, moveVec)]))

\* the right vector of KeyA / KeyD
StrafeRight(s) == Normalize(Cross(Normalize(VSub(s.at, s.eye)), s.up))

YawStep == 5

\* KeyQ / KeyE rotating the view direction at - eye, without normalize
YawKey_ViewDir(s, deg) ==
  LET f == MultiplyVector3(SetRotate(deg * One, s.up), VSub(s.at, s.eye))
  IN  [s EXCEPT !.forward = f, !.at = VAdd(s.eye, f)]

\* KeyQ / KeyE: forward rotated by deg degrees about up, at recomputed
\* (new Vector3(eye) is taken to copy eye)
YawKey(s, deg) ==
  LET f == Normalize(MultiplyVector3(SetRotate(deg * One, s.up), s.forward))
  IN  [s EXCEPT !.forward = f, !.at = VAdd(s.eye, f)]

\* the switch of the keydown handler
KeySwitch(s, code) ==
  CASE code = "KeyW" -> Move(s, s.forward)
    [] code = "KeyS" -> Move(s, VMul(s.forward, -2 * One))
    [] code = "KeyA" -> Move(s, VMul(StrafeRight(s), -One))
    [] code = "KeyD" -> Move(s, StrafeRight(s))
    [] code = "KeyQ" -> YawKey(s, -YawStep)
    [] code = "KeyE" -> YawKey(s, YawStep)
    [] code = "Space" -> Move(s, s.up)
    [] code = "ShiftLeft" -> Move(s, VMul(s.up, -One))
    [] OTHER -> s

\* the keydown handler drawing without updateViewMatrix after the switch
KeyHandler_NoUpdate(s, code) == DrawScene(KeySwitch(s, code))

\* the keydown handler redrawing only for the codes the switch handles
KeyHandler_HandledOnly(s, code) ==
  IF code \in MoveCodes \cup YawCodes
  THEN DrawScene(UpdateViewMatrix(KeySwitch(s, code)))
  ELSE s

\* the keydown handler
KeyHandler(s, code) == DrawScene(UpdateViewMatrix(KeySwitch(s, code)))

Sensitivity == 20000

\* the mousemove handler turning about the x axis (pitch) instead of up
MouseHandler_Pitch(s, locked, movementX) ==
  IF locked
  THEN LET yaw == -movementX * Sensitivity
           rot == SetRotate(Degrees(yaw), <<One, 0, 0>>)
       IN  DrawScene(UpdateViewMatrix(
             [s EXCEPT !.forward = Normalize(MultiplyVector3(rot, s.forward))]))
  ELSE s

\* the mousemove handler without the pointer lock test
MouseHandler_NoLockTest(s, locked, movementX) ==
  LET yaw == -movementX * Sensitivity
      rot == SetRotate(Degrees(yaw), s.up)
  IN  DrawScene(UpdateViewMatrix(
        [s EXCEPT !.forward = Normalize(MultiplyVector3(rot, s.forward))]))

\* the mousemove handler
MouseHandler(s, locked, movementX) ==
  IF locked
  THEN LET yaw == -movementX * Sensitivity
           rot == SetRotate(Degrees(yaw), s.up)
       IN  DrawScene(UpdateViewMatrix(
             [s EXCEPT !.forward = Normalize(MultiplyVector3(rot, s.forward))]))
  ELSE s

\* image.onload
LoadHandler(s) == DrawScene(s)

\* the last three statements of the script
InitialSetup(s, size) == DrawScene(UpdateProjectionMatrix(UpdateViewMatrix(s), size))

\* ------------------------------------------------------- actions
\* the program's variables as the record the handlers work on; draws counts
\* from 0 in each handler
Cur ==
  [eye |-> eye, forward |-> forward, up |-> up, at |-> at,
   viewMatrix |-> viewMatrix, projectionMatrix |-> projectionMatrix,
   map |-> map, screen |-> screen, draws |-> 0, drawLog |-> <<>>]

Store(s) ==
  /\ eye' = s.eye
  /\ forward' = s.forward
  /\ up' = s.up
  /\ at' = s.at
  /\ viewMatrix' = s.viewMatrix
  /\ projectionMatrix' = s.projectionMatrix
  /\ map' = s.map
  /\ screen' = s.screen
  /\ draws' = s.draws
  /\ drawLog' = s.drawLog

\* eye, forward and at as a handler finds them
Camera == [eye |-> eye, forward |-> forward, at |-> at]

Event(type, code, dx, locked) ==
  [type |-> type, code |-> code, dx |-> dx, locked |-> locked]

\* the canvas before any drawScene
Blank == [view |-> Identity, proj |-> Identity, calls |-> <<>>]

InitCamera ==
  /\ pc = "start"
  /\ eye = <<0, 2 * One, -5 * One>>
  /\ forward = Normalize(<<0, 0, One>>)
  /\ up = <<0, One, 0>>
  /\ at = <<0, 2 * One, 0>>
  /\ viewMatrix = Identity
  /\ projectionMatrix = Identity
  /\ texLoaded = FALSE
  /\ pointerLock = FALSE
  /\ screen = Blank
  /\ draws = 0
  /\ drawLog = <<>>
  /\ lastEvent = Event("none", "", 0, FALSE)
  /\ before = Camera
  /\ steps = 0

Init == InitCamera /\ map = SourceMap

\* the script runs to its end: updateViewMatrix, updateProjectionMatrix, drawScene
Startup ==
  /\ pc = "start"
  /\ \E size \in CanvasSizes : \E s \in {InitialSetup(Cur, size)} : Store(s)
  /\ pc' = "ready"
  /\ lastEvent' = Event("startup", "", 0, FALSE)
  /\ before' = Camera
  /\ UNCHANGED <<texLoaded, pointerLock, steps>>

KeyDown ==
  /\ pc = "ready"
  /\ steps < MaxSteps
  /\ \E code \in Codes :
       /\ \E s \in {KeyHandler(Cur, code)} : Store(s)
       /\ lastEvent' = Event("keydown", code, 0, pointerLock)
       /\ before' = Camera
  /\ steps' = steps + 1
  /\ UNCHANGED <<pc, texLoaded, pointerLock>>

MouseMove ==
  /\ pc = "ready"
  /\ steps < MaxSteps
  /\ \E dx \in MovementX :
       /\ \E s \in {MouseHandler(Cur, pointerLock, dx)} : Store(s)
       /\ lastEvent' = Event("mousemove", "", dx, pointerLock)
       /\ before' = Camera
  /\ steps' = steps + 1
  /\ UNCHANGED <<pc, texLoaded, pointerLock>>

\* the texture image finishes loading, once
TextureLoad ==
  /\ pc = "ready"
  /\ steps < MaxSteps
  /\ ~texLoaded
  /\ \E s \in {LoadHandler(Cur)} : Store(s)
  /\ texLoaded' = TRUE
  /\ lastEvent' = Event("load", "", 0, pointerLock)
  /\ before' = Camera
  /\ steps' = steps + 1
  /\ UNCHANGED <<pc, pointerLock>>

\* a click on the canvas: requestPointerLock
Click ==
  /\ pc = "ready"
  /\ steps < MaxSteps
  /\ pointerLock' = TRUE
  /\ lastEvent' = Event("click", "", 0, pointerLock)
  /\ before' = Camera
  /\ steps' = steps + 1
  /\ draws' = 0
  /\ drawLog' = <<>>
  /\ UNCHANGED <<pc, eye, forward, up, at, viewMatrix, projectionMatrix, map, texLoaded, screen>>

\* the browser releases the pointer lock (Escape)
ExitLock ==
  /\ pc = "ready"
  /\ steps < MaxSteps
  /\ pointerLock
  /\ pointerLock' = FALSE
  /\ lastEvent' = Event("unlock", "", 0, pointerLock)
  /\ before' = Camera
  /\ steps' = steps + 1
  /\ draws' = 0
  /\ drawLog' = <<>>
  /\ UNCHANGED <<pc, eye, forward, up, at, viewMatrix, projectionMatrix, map, texLoaded, screen>>

Next == Startup \/ KeyDown \/ MouseMove \/ TextureLoad \/ Click \/ ExitLock

Spec == Init /\ [][Next]_vars

\* ------------------------------------------------------- any height grid
\* the shapes rows x cols with at most MaxCells cells
Shapes == {rc \in (1..MaxCells) \X (1..MaxCells) : rc[1] * rc[2] <= MaxCells}
Grids == UNION {[1..rc[1] -> [1..rc[2] -> 0..MaxHeight]] : rc \in Shapes}

InitScene == InitCamera /\ map \in Grids

NextScene == Startup \/ TextureLoad

\* drawScene over every small height grid
SpecScene == InitScene /\ [][NextScene]_vars

\* ------------------------------------------------------- claims
IsKey(e, codes) == e.type = "keydown" /\ e.code \in codes
IsMouseLook(e) == e.type = "mousemove" /\ e.locked

\* C1: a movement key (KeyW, KeyS, KeyA, KeyD, Space, ShiftLeft) translates eye
\* and at by the same vector, at' - eye' = at - eye, and leaves forward and up
\* as they were.
C1_MoveKeepsLookVector ==
  [][IsKey(lastEvent', MoveCodes) /\ steps' = steps + 1
       => /\ VSub(at', eye') = VSub(at, eye)
          /\ forward' = forward
          /\ up' = up]_vars

\* a movement key pressed after the camera has turned, and the eye has moved
C1_Witness ==
  /\ IsKey(lastEvent, {"KeyA", "KeyS"})
  /\ forward # <<0, 0, One>>
  /\ eye # <<0, 2 * One, -5 * One>>

\* C2: in every state the handlers can run in, the right vector of KeyA / KeyD
\* is perpendicular to forward and to up.
C2_StrafePerpendicular ==
  pc = "ready" =>
    /\ Abs(Dot(StrafeRight(Cur), forward)) <= Tol
    /\ Abs(Dot(StrafeRight(Cur), up)) <= Tol

\* C3: after a mousemove under pointer lock, at = eye + forward and the view
\* matrix is the look-at matrix along the rotated forward.
C3_MouseLookRecomputesAt ==
  IsMouseLook(lastEvent) =>
    /\ at = VAdd(eye, forward)
    /\ viewMatrix = SetLookAt(eye, VAdd(eye, forward), up)

\* C4: in every reachable state, the initial one included, at = eye + forward.
C4_AtIsEyePlusForward == at = VAdd(eye, forward)

\* C5: a redraw-triggering event (texture load, a handled keydown, a mousemove
\* under pointer lock) runs drawScene exactly once.
C5_OneDrawPerEvent ==
  (lastEvent.type = "load" \/ IsKey(lastEvent, MoveCodes \cup YawCodes)
     \/ IsMouseLook(lastEvent))
    => draws = 1

\* C6: no textured cube is on the canvas before the texture has loaded, and
\* drawScene runs only in reaction to an input event or the load callback.
C6_NoTexturedDrawBeforeLoad ==
  /\ (\E n \in 1..Len(screen.calls) : screen.calls[n].texWeight = One) => texLoaded
  /\ draws > 0 => lastEvent.type \in {"keydown", "mousemove", "load"}

\* the sum of the heights of the grid m
RECURSIVE SumSeq(_)
SumSeq(q) == IF q = <<>> THEN 0 ELSE q[1] + SumSeq(Tail(q))
RECURSIVE SumHeights(_)
SumHeights(m) == IF m = <<>> THEN 0 ELSE SumSeq(m[1]) + SumHeights(Tail(m))

\* C7: for any height grid, one drawScene issues one sky draw (texture weight
\* 0, blue tint), then one ground draw (texture weight 0, green tint), then
\* exactly sum-of-heights stacked-cube draws (texture weight 1), nothing else.
C7_SceneComposition ==
  draws > 0 =>
    LET c == screen.calls
    IN  /\ Len(c) = 2 + SumHeights(map)
        /\ c[1].texWeight = 0
        /\ c[1].baseColor = <<3000000, 5000000, 10000000, 10000000>>
        /\ c[2].texWeight = 0
        /\ c[2].baseColor = <<3000000, 8000000, 3000000, 10000000>>
        /\ \A n \in 3..Len(c) : c[n].texWeight = 10000000

\* the grid [[1,0],[0,2]] drawn: 1 sky, 1 ground, 3 stacked cubes
C7_Witness ==
  /\ map = <<<<1, 0>>, <<0, 2>>>>
  /\ draws = 1
  /\ Len(screen.calls) = 5

\* the cell and elevation <<i, j, h>> of a stacked-cube draw
CubeKey(call) ==
  <<call.modelMatrix[13] \div One, call.modelMatrix[15] \div One,
    call.modelMatrix[14] \div One>>
LexLess(a, b) ==
  \/ a[1] < b[1]
  \/ a[1] = b[1] /\ a[2] < b[2]
  \/ a[1] = b[1] /\ a[2] = b[2] /\ a[3] < b[3]

\* C8: the stacked cubes of one drawScene come in row-major order of the grid
\* and bottom to top within a cell, and cell (i, j) of height n contributes
\* exactly the elevations 0..n-1.
C8_RowMajorBottomUp ==
  draws > 0 =>
    LET c == screen.calls
    IN  /\ \A p, q \in 3..Len(c) : p < q => LexLess(CubeKey(c[p]), CubeKey(c[q]))
        /\ {CubeKey(c[n]) : n \in 3..Len(c)}
             = UNION {{<<i, j, h>> : h \in 0..(map[i + 1][j + 1] - 1)} :
                        <<i, j>> \in (0..(Len(map) - 1)) \X (0..(Len(map[1]) - 1))}

\* a grid with a stack of two and cubes in two rows, drawn
C8_Witness ==
  /\ draws = 1
  /\ Len(map) = 2
  /\ map[1][1] = 2
  /\ map[2][1] = 1

\* C9: a redraw with no camera-mutating event before it (the load callback, a
\* keydown of no camera key) issues the same draw parameters as the draw
\* before it and changes neither the camera nor the height grid.
C9_RedrawIdempotent ==
  [][(lastEvent'.type = "load" \/ IsKey(lastEvent', OtherCodes)) /\ steps' = steps + 1
       => /\ screen' = screen
          /\ <<eye', forward', up', at', viewMatrix', projectionMatrix'>>
               = <<eye, forward, up, at, viewMatrix, projectionMatrix>>
          /\ map' = map]_vars

\* a redraw of a scene seen by a camera that has turned and moved
C9_Witness ==
  /\ lastEvent.type = "load"
  /\ draws = 1
  /\ forward # <<0, 0, One>>
  /\ eye # <<0, 2 * One, -5 * One>>

\* C10: after a KeyQ / KeyE rotation or a mouse-look event, |forward| = 1
\* within 1e-6.
C10_ForwardUnit ==
  (IsKey(lastEvent, YawCodes) \/ IsMouseLook(lastEvent))
    => Abs(Magnitude(forward) - One) <= Tol

\* a mouse look after a key rotation (or the reverse)
C10_Witness ==
  /\ IsMouseLook(lastEvent)
  /\ steps >= 3
  /\ at # <<0, 2 * One, 0>>
  /\ forward # <<0, 0, One>>

\* componentwise equality within 1e-6
Near(a, b) == \A k \in 1..3 : Abs(a[k] - b[k]) <= Tol

\* f turned by sgn * 5 degrees about +Y: cos 5 = 0.9961947, sin 5 = 0.0871557
Turned5(f, sgn) ==
  <<FMul(f[1], 9961947) + sgn * FMul(f[3], 871557),
    f[2],
    FMul(f[3], 9961947) - sgn * FMul(f[1], 871557)>>

YawStepOf(codes) == IsKey(lastEvent', codes) /\ steps' = steps + 1

\* C11: KeyQ (KeyE) leaves eye, turns forward by -5 (+5) degrees about world
\* up and sets at = eye + forward; so KeyE right after KeyQ restores forward
\* and at to what they were before the pair.
C11_YawKeyPair ==
  [][/\ YawStepOf({"KeyQ"}) =>
          eye' = eye /\ Near(forward', Turned5(forward, -1)) /\ at' = VAdd(eye', forward')
     /\ YawStepOf({"KeyE"}) =>
          eye' = eye /\ Near(forward', Turned5(forward, 1)) /\ at' = VAdd(eye', forward')
     /\ (IsKey(lastEvent, {"KeyQ"}) /\ YawStepOf({"KeyE"})) =>
          Near(forward', before.forward) /\ Near(at', before.at)]_vars

KeyStepOf(codes) == IsKey(lastEvent', codes) /\ steps' = steps + 1

C13_NoPitch ==
  [][/\ up' = <<0, One, 0>>
     /\ forward'[2] = 0
     /\ KeyStepOf({"Space"}) =>
          /\ Abs(eye'[2] - eye[2] - 3000000) <= Tol
          /\ at'[2] - at[2] = eye'[2] - eye[2]
     /\ KeyStepOf({"ShiftLeft"}) =>
          /\ Abs(eye'[2] - eye[2] + 3000000) <= Tol
          /\ at'[2] - at[2] = eye'[2] - eye[2]
     /\ ~KeyStepOf({"Space", "ShiftLeft"}) =>
          eye'[2] = eye[2] /\ at'[2] = at[2]]_vars

\* Space pressed after a mouse look: the eye is up by 0.3, forward is level
C13_Witness ==
  /\ IsKey(lastEvent, {"Space"})
  /\ forward # <<0, 0, One>>
  /\ at # VAdd(eye, forward)
  /\ eye[2] = 2 * One + 3000000

\* C14: a mousemove while the canvas does not hold the pointer lock changes
\* nothing: eye, forward, at, up and viewMatrix stay and drawScene is not run.
C14_UnlockedMouseIgnored ==
  [][(lastEvent'.type = "mousemove" /\ ~lastEvent'.locked /\ steps' = steps + 1)
       => /\ <<eye', forward', at', up'>> = <<eye, forward, at, up>>
          /\ viewMatrix' = viewMatrix
          /\ draws' = 0
          /\ screen' = screen]_vars

\* a mousemove after the lock was released, following a mouse look under lock
C14_Witness ==
  /\ lastEvent.type = "mousemove"
  /\ ~lastEvent.locked
  /\ draws = 0
  /\ forward # <<0, 0, One>>
  /\ at = <<0, 2 * One, 0>>

\* C15: in every reachable state the look direction is the movement
\* direction: normalize(at - eye) = forward (within 1e-6).
C15_LookIsForward == Near(Normalize(VSub(at, eye)), forward)

\* C16: the view matrix is never stale at draw time: every execution of
\* drawScene (at startup, on texture load, keydown or mousemove) starts with
\* viewMatrix equal to the look-at matrix of the current eye, at and up.
C16_ViewFreshAtDraw ==
  /\ draws = Len(drawLog)
  /\ \A k \in 1..Len(drawLog) :
       drawLog[k].view = SetLookAt(drawLog[k].eye, drawLog[k].at, drawLog[k].up)

\* the two draws of a movement key pressed after the camera has turned
C16_Witness ==
  /\ IsKey(lastEvent, {"KeyD"})
  /\ Len(drawLog) = 2
  /\ forward # <<0, 0, One>>
  /\ drawLog[1].eye # <<0, 2 * One, -5 * One>>

\* C17 as stated: a keydown of a code other than the eight camera keys leaves
\* eye, forward, at and up and runs no drawScene.
C17_OtherKeyNoEffect ==
  [][KeyStepOf(Codes \ (MoveCodes \cup YawCodes))
       => /\ <<eye', forward', at', up'>> = <<eye, forward, at, up>>
          /\ draws' = 0]_vars

\* C17 (amended): a keydown of a code other than the eight camera keys leaves
\* eye, forward, at, up and viewMatrix as they were, and still redraws: it
\* runs drawScene exactly once.
C17_OtherKeyRedrawsOnly ==
  [][KeyStepOf(Codes \ (MoveCodes \cup YawCodes))
       => /\ <<eye', forward', at', up'>> = <<eye, forward, at, up>>
          /\ viewMatrix' = viewMatrix
          /\ draws' = 1]_vars

\* a key of no case pressed after the camera has turned and moved
C17_Witness ==
  /\ IsKey(lastEvent, OtherCodes)
  /\ draws = 1
  /\ before = Camera
  /\ forward # <<0, 0, One>>
  /\ eye # <<0, 2 * One, -5 * One>>

====
